---- MODULE Spec2Model ----
\* A model of srrsync's block index (src/src/index.rs) and of its transfer
\* driver (src/src/sync/mod.rs).
\*
\* The state machines of this module:
\*   Spec        the Index: transactions, add_file, remove_file, add_block,
\*               index_file (one step per chunk_iterator.read()), get_block;
\*   SpecIo      the same on a disk whose opens and reads may fail;
\*   SpecChunk   the loop of index_file alone, over one longer file;
\*   SpecStream  do_stream driving a Sink and a Source (FairStream adds the
\*               fairness of the loop and of the transport);
\*   SpecSession the same with peer calls that may fail and a cancellation
\*               signal.
\* Each specification keeps the other machine's variables at their idle value.
EXTENDS Integers, Sequences, FiniteSets, TLC

VARIABLES
    db,      \* the committed contents of the SQLite database (files, blocks)
    tx,      \* the open transaction's view of the database, if one is open
    ix,      \* the frame of a running index_file call (locals of the loop)
    last,    \* the last completed Index operation, its arguments and result
    drv,     \* do_stream's locals: position, `instructions`, this iteration's calls
    sink,    \* the Sink peer (recv)
    source,  \* the Source peer (send)
    hist,    \* what do_stream has passed between the peers, in order
    ops,     \* how many Index operations the client has issued
    partial, \* the file_ids whose last chunking pass returned Err part-way
    cancel   \* whether the cancellation signal of the session is raised

vars == <<db, tx, ix, last, drv, sink, source, hist, ops, partial, cancel>>
indexVars == <<db, tx, ix, last, ops, partial>>
streamVars == <<drv, sink, source, hist, cancel>>

-----------------------------------------------------------------------------
\* Bounds and constants

\* index.rs:103 has 1 << 15; the model scales the ceiling down to two bytes,
\* every comparison against it is kept as the code writes it.
MAX_BLOCK_SIZE == 2

MaxFileLen == 3     \* longest file the chunk iterator reads
MaxFileId == 2      \* largest rowid the files table hands out
MaxOps == 2         \* Index operations issued in one run

Names == {"a", "b"}
Times == {1, 2}

\* The files on disk: the byte at position i (from 1) of a file whose content
\* is stream k.  A file is a prefix of its stream, of any length up to
\* MaxFileLen; the streams share some blocks and differ in others.
Streams == {0}
FileByte(k, i) == IF (i + k) % 3 = 0 THEN 1 ELSE 0
FileBytes(k, from, n) == [i \in 1..n |-> FileByte(k, from + i)]

\* HashDigest values passed to add_block and get_block directly.  A digest is
\* modelled by the byte string it was computed from (SHA-1 taken as injective).
DirectHashes == {<<1, 1>>}
DirectOffsets == {0, MAX_BLOCK_SIZE}

FileIds == 1..MaxFileId

SetMax(S) == CHOOSE x \in S : \A y \in S : y <= x

-----------------------------------------------------------------------------
\* The database: tables files(file_id, name, modified) and
\* blocks(hash, file_id, offset) with PRIMARY KEY(file_id, offset).

EmptyDb == [files |-> {}, blocks |-> {}]

NoTx == [open |-> FALSE, files |-> {}, blocks |-> {}]

TxDb == [files |-> tx.files, blocks |-> tx.blocks]

\* SELECT file_id, modified FROM files WHERE name = ?
SelectFile(d, name) == {f \in d.files : f.name = name}

\* last_insert_rowid() after INSERT INTO files: an INTEGER PRIMARY KEY column
\* without AUTOINCREMENT gets the largest rowid in the table plus one.
NewRowid(d) ==
    IF d.files = {} THEN 1 ELSE SetMax({f.file_id : f \in d.files}) + 1

\* DELETE FROM blocks WHERE file_id = ?
DeleteBlocks(d, file_id) ==
    [d EXCEPT !.blocks = {b \in @ : b.file_id # file_id}]

\* add_file without the comparison of the timestamps: every file already in
\* the index is reset.
add_file_always_reset(d, name, modified) ==
    LET rows == SelectFile(d, name) IN
    IF rows # {}
    THEN LET row == CHOOSE f \in rows : TRUE IN
         [db |-> [files |-> (d.files \ {row}) \cup
                              {[row EXCEPT !.modified = modified]},
                  blocks |-> DeleteBlocks(d, row.file_id).blocks],
          file_id |-> row.file_id, up_to_date |-> FALSE, existed |-> TRUE]
    ELSE [db |-> [d EXCEPT !.files = @ \cup
                     {[file_id |-> NewRowid(d), name |-> name,
                       modified |-> modified]}],
          file_id |-> NewRowid(d), up_to_date |-> FALSE, existed |-> FALSE]

\* add_file without the DELETE FROM blocks: a changed file keeps its old rows.
add_file_keeps_blocks(d, name, modified) ==
    LET rows == SelectFile(d, name) IN
    IF rows # {}
    THEN LET row == CHOOSE f \in rows : TRUE IN
         IF row.modified # modified
         THEN [db |-> [d EXCEPT !.files = (@ \ {row}) \cup
                                   {[row EXCEPT !.modified = modified]}],
               file_id |-> row.file_id, up_to_date |-> FALSE, existed |-> TRUE]
         ELSE [db |-> d, file_id |-> row.file_id, up_to_date |-> TRUE,
               existed |-> TRUE]
    ELSE [db |-> [d EXCEPT !.files = @ \cup
                     {[file_id |-> NewRowid(d), name |-> name,
                       modified |-> modified]}],
          file_id |-> NewRowid(d), up_to_date |-> FALSE, existed |-> FALSE]

\* add_file without the SELECT by name: every call inserts a row.
add_file_always_inserts(d, name, modified) ==
    [db |-> [d EXCEPT !.files = @ \cup
                {[file_id |-> NewRowid(d), name |-> name,
                  modified |-> modified]}],
     file_id |-> NewRowid(d), up_to_date |-> FALSE, existed |-> FALSE]

\* IndexTransaction::add_file
add_file(d, name, modified) ==
    LET rows == SelectFile(d, name) IN
    IF rows # {}
    THEN LET row == CHOOSE f \in rows : TRUE IN
         IF row.modified # modified
         THEN [db |-> [files |-> (d.files \ {row}) \cup
                                   {[row EXCEPT !.modified = modified]},
                       blocks |-> DeleteBlocks(d, row.file_id).blocks],
               file_id |-> row.file_id, up_to_date |-> FALSE, existed |-> TRUE]
         ELSE [db |-> d, file_id |-> row.file_id, up_to_date |-> TRUE,
               existed |-> TRUE]
    ELSE [db |-> [d EXCEPT !.files = @ \cup
                     {[file_id |-> NewRowid(d), name |-> name,
                       modified |-> modified]}],
          file_id |-> NewRowid(d), up_to_date |-> FALSE, existed |-> FALSE]

\* IndexTransaction::remove_file
remove_file(d, file_id) ==
    [files |-> {f \in d.files : f.file_id # file_id},
     blocks |-> DeleteBlocks(d, file_id).blocks]

\* IndexTransaction::add_block: the INSERT fails on a second row with the
\* same (file_id, offset), the table's primary key.
add_block(d, hash, file_id, offset) ==
    IF \E b \in d.blocks : b.file_id = file_id /\ b.offset = offset
    THEN [ok |-> FALSE, db |-> d]
    ELSE [ok |-> TRUE,
          db |-> [d EXCEPT !.blocks = @ \cup
                     {[hash |-> hash, file_id |-> file_id, offset |-> offset]}]]

\* Index::get_block: the rows of
\* SELECT files.name, blocks.offset FROM blocks INNER JOIN files
\*   ON blocks.file_id = files.file_id WHERE blocks.hash = ?
get_block(d, hash) ==
    {[name |-> f.name, offset |-> b.offset] :
        <<b, f>> \in {p \in d.blocks \X d.files :
                         p[1].file_id = p[2].file_id /\ p[1].hash = hash}}

-----------------------------------------------------------------------------
\* index_file's loop over the chunk iterator

IdleIx ==
    [pc |-> "idle", name |-> "", modified |-> 0, file_id |-> 0,
     stream |-> 0,
     existed |-> FALSE, start_offset |-> 0, offset |-> 0, sha1 |-> <<>>,
     status |-> "End", eof |-> FALSE, data |-> <<>>, emitted |-> <<>>,
     coincide |-> FALSE, clean |-> TRUE, cuts |-> {}]

NoOp ==
    [op |-> "none", name |-> "", modified |-> 0, hash |-> <<>>, file_id |-> 0,
     offset |-> 0, ok |-> TRUE, up_to_date |-> FALSE, existed |-> FALSE,
     found |-> FALSE, data |-> <<>>, emitted |-> <<>>, coincide |-> FALSE,
     clean |-> TRUE, cuts |-> {}, io |-> FALSE, dirty |-> FALSE]

\* No chunking pass is known to have stopped part-way: in the committed
\* database (db) and in the open transaction's view (tx).
NoPartial == [db |-> {}, tx |-> {}]

\* The ChunkInput::Data arm with `if` for `while`: one cut per piece of data
\* at most.
DataArm_if(s, d) ==
    IF s.offset - s.start_offset + Len(d) >= MAX_BLOCK_SIZE
    THEN LET end == MAX_BLOCK_SIZE + s.start_offset - s.offset
             digest == s.sha1 \o SubSeq(d, 1, end)
             r == add_block(s.db, digest, s.file_id, s.start_offset)
             rest == SubSeq(d, end + 1, Len(d))
         IN  IF ~r.ok
             THEN [s EXCEPT !.ok = FALSE]
             ELSE [s EXCEPT !.db = r.db,
                            !.emitted = Append(@,
                                [offset |-> s.start_offset,
                                 size |-> s.offset + end - s.start_offset,
                                 hash |-> digest]),
                            !.offset = s.offset + end + Len(rest),
                            !.start_offset = s.offset + end,
                            !.sha1 = rest]
    ELSE [s EXCEPT !.sha1 = @ \o d, !.offset = @ + Len(d)]

\* The ChunkInput::Data arm: the while loop that cuts at MAX_BLOCK_SIZE, then
\* the two statements after it.  s carries the database and the loop's locals;
\* s.ok turns FALSE when add_block fails and `?` returns from index_file.
RECURSIVE DataArm(_, _)
DataArm(s, d) ==
    IF s.offset - s.start_offset + Len(d) >= MAX_BLOCK_SIZE
    THEN LET end == MAX_BLOCK_SIZE + s.start_offset - s.offset
             digest == s.sha1 \o SubSeq(d, 1, end)
             r == add_block(s.db, digest, s.file_id, s.start_offset)
         IN  IF ~r.ok
             THEN [s EXCEPT !.ok = FALSE]
             ELSE DataArm(
                    [s EXCEPT !.db = r.db,
                              !.emitted = Append(@,
                                  [offset |-> s.start_offset,
                                   size |-> s.offset + end - s.start_offset,
                                   hash |-> digest]),
                              !.offset = s.offset + end,
                              !.start_offset = s.offset + end,
                              !.sha1 = <<>>],
                    SubSeq(d, end + 1, Len(d)))
    ELSE [s EXCEPT !.sha1 = @ \o d, !.offset = @ + Len(d)]

\* The ChunkInput::End arm without its sha1.reset(): the hasher runs on into
\* the next block.
EndArm_no_reset(s) ==
    LET digest == s.sha1
        r == add_block(s.db, digest, s.file_id, s.start_offset)
    IN  IF ~r.ok
        THEN [s EXCEPT !.ok = FALSE]
        ELSE [s EXCEPT !.db = r.db,
                       !.emitted = Append(@,
                           [offset |-> s.start_offset,
                            size |-> s.offset - s.start_offset,
                            hash |-> digest]),
                       !.start_offset = s.offset]

\* The ChunkInput::End arm.
EndArm(s) ==
    LET digest == s.sha1
        r == add_block(s.db, digest, s.file_id, s.start_offset)
    IN  IF ~r.ok
        THEN [s EXCEPT !.ok = FALSE]
        ELSE [s EXCEPT !.db = r.db,
                       !.emitted = Append(@,
                           [offset |-> s.start_offset,
                            size |-> s.offset - s.start_offset,
                            hash |-> digest]),
                       !.start_offset = s.offset,
                       !.sha1 = <<>>]

Locals ==
    [db |-> TxDb, file_id |-> ix.file_id, start_offset |-> ix.start_offset,
     offset |-> ix.offset, sha1 |-> ix.sha1, emitted |-> ix.emitted,
     ok |-> TRUE]

\* The record of a finished index_file call.
Finished(frame, ok, up_to_date) ==
    [NoOp EXCEPT !.op = "index_file", !.name = frame.name,
                 !.modified = frame.modified, !.file_id = frame.file_id,
                 !.ok = ok, !.up_to_date = up_to_date,
                 !.existed = frame.existed, !.data = frame.data,
                 !.emitted = frame.emitted, !.coincide = frame.coincide,
                 !.clean = frame.clean, !.cuts = frame.cuts]

\* What one arm leaves behind: the loop goes on, or `?` returned the error.
AfterArm(frame, r) ==
    LET f == [frame EXCEPT !.start_offset = r.start_offset,
                           !.offset = r.offset, !.sha1 = r.sha1,
                           !.emitted = r.emitted]
    IN  /\ tx' = [tx EXCEPT !.files = r.db.files, !.blocks = r.db.blocks]
        /\ IF r.ok
           THEN ix' = f /\ last' = last /\ partial' = partial
           ELSE /\ ix' = IdleIx
                /\ last' = Finished(f, FALSE, FALSE)
                /\ partial' = [partial EXCEPT !.tx = @ \cup {frame.file_id}]

-----------------------------------------------------------------------------
\* Actions of the Index

\* Index::transaction
Transaction ==
    /\ ~tx.open
    /\ tx' = [open |-> TRUE, files |-> db.files, blocks |-> db.blocks]
    /\ partial' = [partial EXCEPT !.tx = partial.db]
    /\ last' = [NoOp EXCEPT !.op = "transaction"]
    /\ UNCHANGED <<db, ix, ops, streamVars>>

\* IndexTransaction::commit
Commit ==
    /\ tx.open /\ ix.pc = "idle"
    /\ db' = TxDb
    /\ tx' = NoTx
    /\ last' = [NoOp EXCEPT !.op = "commit", !.dirty = (TxDb # db)]
    /\ partial' = [db |-> partial.tx, tx |-> {}]
    /\ UNCHANGED <<ix, ops, streamVars>>

\* A drop of the transaction that keeps what it wrote.
Rollback_commits ==
    /\ tx.open /\ ix.pc = "idle"
    /\ db' = TxDb
    /\ tx' = NoTx
    /\ last' = [NoOp EXCEPT !.op = "rollback", !.dirty = (TxDb # db)]
    /\ partial' = [partial EXCEPT !.tx = {}]
    /\ UNCHANGED <<ix, ops, streamVars>>

\* The transaction goes out of scope without commit(): rusqlite rolls back.
Rollback ==
    /\ tx.open /\ ix.pc = "idle"
    /\ tx' = NoTx
    /\ last' = [NoOp EXCEPT !.op = "rollback", !.dirty = (TxDb # db)]
    /\ partial' = [partial EXCEPT !.tx = {}]
    /\ UNCHANGED <<db, ix, ops, streamVars>>

AddFile(name, modified) ==
    /\ tx.open /\ ix.pc = "idle"
    /\ ops < MaxOps /\ ops' = ops + 1
    /\ LET r == add_file(TxDb, name, modified) IN
       /\ r.file_id <= MaxFileId
       /\ tx' = [tx EXCEPT !.files = r.db.files, !.blocks = r.db.blocks]
       /\ last' = [NoOp EXCEPT !.op = "add_file", !.name = name,
                               !.modified = modified, !.file_id = r.file_id,
                               !.up_to_date = r.up_to_date,
                               !.existed = r.existed]
    /\ UNCHANGED <<db, ix, partial, streamVars>>

RemoveFile(file_id) ==
    /\ tx.open /\ ix.pc = "idle"
    /\ ops < MaxOps /\ ops' = ops + 1
    /\ LET d == remove_file(TxDb, file_id) IN
       tx' = [tx EXCEPT !.files = d.files, !.blocks = d.blocks]
    /\ last' = [NoOp EXCEPT !.op = "remove_file", !.file_id = file_id]
    /\ partial' = [partial EXCEPT !.tx = @ \ {file_id}]
    /\ UNCHANGED <<db, ix, streamVars>>

AddBlock(hash, file_id, offset) ==
    /\ tx.open /\ ix.pc = "idle"
    /\ ops < MaxOps /\ ops' = ops + 1
    /\ LET r == add_block(TxDb, hash, file_id, offset) IN
       /\ tx' = [tx EXCEPT !.files = r.db.files, !.blocks = r.db.blocks]
       /\ last' = [NoOp EXCEPT !.op = "add_block", !.hash = hash,
                               !.file_id = file_id, !.offset = offset,
                               !.ok = r.ok]
    /\ UNCHANGED <<db, ix, partial, streamVars>>

\* index_file up to the loop: open the file, read its mtime, add_file, and
\* return at once when the file is up to date.  (The file opens here;
\* IndexFileOpenErr is the open that fails.)
IndexFileOpen(name, modified, stream) ==
    /\ tx.open /\ ix.pc = "idle"
    /\ ops < MaxOps /\ ops' = ops + 1
    /\ LET r == add_file(TxDb, name, modified)
           frame == [IdleIx EXCEPT !.pc = "reading", !.name = name,
                                   !.modified = modified,
                                   !.stream = stream,
                                   !.file_id = r.file_id,
                                   !.existed = r.existed,
                                   !.clean = \A b \in r.db.blocks :
                                                b.file_id # r.file_id]
       IN
       /\ r.file_id <= MaxFileId
       /\ tx' = [tx EXCEPT !.files = r.db.files, !.blocks = r.db.blocks]
       /\ IF r.up_to_date
          THEN ix' = IdleIx /\ last' = Finished(frame, TRUE, TRUE)
          ELSE ix' = frame /\ last' = last
    /\ UNCHANGED <<db, partial, streamVars>>

\* index_file when File::open, metadata() or modified() returns Err: `?`
\* returns before add_file is called, and the modification time is not known.
IndexFileOpenErr(name) ==
    /\ tx.open /\ ix.pc = "idle"
    /\ ops < MaxOps /\ ops' = ops + 1
    /\ last' = [NoOp EXCEPT !.op = "File::open", !.name = name, !.ok = FALSE,
                            !.io = TRUE]
    /\ UNCHANGED <<db, tx, ix, partial, streamVars>>

\* chunk_iterator.read() yields Some(Ok(ChunkInput::Data(d))): the next bytes
\* of the file, up to a content-defined cut point (split) or to the end of the
\* chunker's buffer.  The file holds no more than `limit` bytes.
ChunkData(n, split, limit) ==
    /\ ix.pc = "reading"
    /\ ix.status # "AtSplit" /\ ~ix.eof
    /\ Len(ix.data) + n <= limit
    /\ LET d == FileBytes(ix.stream, Len(ix.data), n)
           frame == [ix EXCEPT !.data = @ \o d,
                               !.status = IF split THEN "AtSplit" ELSE "Data",
                               !.cuts = IF split
                                        THEN @ \cup {Len(ix.data) + n} ELSE @]
       IN  AfterArm(frame, DataArm(Locals, d))
    /\ UNCHANGED <<db, ops, streamVars>>

\* chunk_iterator.read() yields Some(Ok(ChunkInput::End)): after a cut point,
\* or at the end of a file whose last bytes were not closed by a cut point.
ChunkEnd ==
    /\ ix.pc = "reading"
    /\ ix.status \in {"AtSplit", "Data"}
    /\ LET frame == [ix EXCEPT !.status = "End",
                               !.eof = (ix.status = "Data"),
                               !.cuts = IF ix.status = "Data"
                                        THEN @ \cup {Len(ix.data)} ELSE @,
                               !.coincide = @ \/ (ix.status = "AtSplit" /\
                                   ix.offset = ix.start_offset)]
       IN  AfterArm(frame, EndArm(Locals))
    /\ UNCHANGED <<db, ops, streamVars>>

\* chunk_iterator.read() yields None: the loop ends and index_file returns Ok.
ChunkNone ==
    /\ ix.pc = "reading"
    /\ ix.status = "End"
    /\ ix' = IdleIx
    /\ last' = Finished(ix, TRUE, FALSE)
    /\ partial' = [partial EXCEPT !.tx = @ \ {ix.file_id}]
    /\ UNCHANGED <<db, tx, ops, streamVars>>

\* chunk_iterator.read() yields Some(Err(e)): the read of the file failed,
\* and `chunk?` returns the error with the blocks inserted so far left in the
\* transaction.  (After a cut point the iterator yields End without reading.)
ChunkErr ==
    /\ ix.pc = "reading"
    /\ ix.status # "AtSplit"
    /\ ix' = IdleIx
    /\ last' = [Finished(ix, FALSE, FALSE) EXCEPT !.io = TRUE]
    /\ partial' = [partial EXCEPT !.tx = @ \cup {ix.file_id}]
    /\ UNCHANGED <<db, tx, ops, streamVars>>

\* Index::get_block needs &self, so no transaction is alive; it answers with
\* the first row of the join, whichever SQLite yields first.
GetBlock(hash) ==
    /\ ~tx.open
    /\ LET rows == get_block(db, hash) IN
       \/ /\ rows = {}
          /\ last' = [NoOp EXCEPT !.op = "get_block", !.hash = hash]
       \/ \E row \in rows :
             last' = [NoOp EXCEPT !.op = "get_block", !.hash = hash,
                                  !.found = TRUE, !.name = row.name,
                                  !.offset = row.offset]
    /\ UNCHANGED <<db, tx, ix, ops, partial, streamVars>>

-----------------------------------------------------------------------------
\* The transfer session: a Sink and a Source as section 4.5 of the design
\* describes them, and do_stream between them.

MaxEvents == 3      \* NewFile/NewBlock events before End

Digests == {<<0>>, <<1>>}

NewFile(name, modified) ==
    [kind |-> "NewFile", name |-> name, modified |-> modified,
     hash |-> <<>>, size |-> 0]
NewBlock(hash, size) ==
    [kind |-> "NewBlock", name |-> "", modified |-> 0,
     hash |-> hash, size |-> size]
End ==
    [kind |-> "End", name |-> "", modified |-> 0, hash |-> <<>>, size |-> 0]

IndexEvents == {NewFile("a", 1)} \cup {NewBlock(h, 1) : h \in Digests}

\* The instruction streams of a Source: NewFile first, every NewBlock after
\* some NewFile, a single End last.
Scripts ==
    {Append(body, End) :
        body \in {b \in UNION {[1..n -> IndexEvents] : n \in 0..MaxEvents} :
                     Len(b) > 0 => b[1].kind = "NewFile"}}

\* Sink::is_missing_blocks
is_missing_blocks(k) == k.missing # {}

\* Sink::new_block: a block that is neither held locally nor already asked
\* for is enqueued, once per session.
sink_new_block(k, hash) ==
    IF hash \in k.have \/ hash \in k.missing
    THEN k
    ELSE [k EXCEPT !.missing = @ \cup {hash}, !.queue = Append(@, hash)]

\* Sink::feed_block: the block is placed and no longer missing.
sink_feed_block(k, hash) ==
    [k EXCEPT !.missing = @ \ {hash}, !.have = @ \cup {hash}]

\* Source::request_block
source_request_block(r, hash) == [r EXCEPT !.pending = @ \cup {hash}]

\* Source::next_from_index: the next instruction, if it has arrived.
HasEvent(r) == r.avail > 0
NextEvent(r) == r.script[r.pos + 1]
source_pop_event(r) == [r EXCEPT !.pos = @ + 1, !.avail = @ - 1]

NoCalls == [req |-> "-", get |-> "-", idx |-> "-", acts |-> 0]

IdleDrv ==
    [pc |-> "idle", instructions |-> TRUE, iter |-> NoCalls, err |-> "-"]
IdleSink == [have |-> {}, queue |-> <<>>, missing |-> {}]
IdleSource ==
    [script |-> <<>>, pos |-> 0, avail |-> 0, pending |-> {}, ready |-> <<>>]
IdleHist ==
    [popped |-> <<>>, request |-> <<>>, got |-> <<>>, fed |-> <<>>,
     dispatched |-> <<>>, waited |-> FALSE]

\* The loop condition with && for ||: the loop ends as soon as either half is
\* false.
WhileTest_and ==
    /\ drv.pc = "while"
    /\ IF drv.instructions /\ is_missing_blocks(sink)
       THEN drv' = [drv EXCEPT !.pc = "next_requested_block",
                               !.iter = NoCalls]
       ELSE drv' = [drv EXCEPT !.pc = "done"]
    /\ UNCHANGED <<sink, source, hist, cancel, indexVars>>

\* `while instructions || recv.is_missing_blocks()?` and, when it is false,
\* the Ok(()) after the loop.
WhileTest ==
    /\ drv.pc = "while"
    /\ IF drv.instructions \/ is_missing_blocks(sink)
       THEN drv' = [drv EXCEPT !.pc = "next_requested_block",
                               !.iter = NoCalls]
       ELSE drv' = [drv EXCEPT !.pc = "done"]
    /\ UNCHANGED <<sink, source, hist, cancel, indexVars>>

\* The block request followed by `if` where the code has `else if`: the same
\* iteration goes on to get_next_block.
ForwardRequest_falls_through ==
    /\ drv.pc = "next_requested_block"
    /\ sink.queue # <<>>
    /\ LET hash == Head(sink.queue) IN
       /\ sink' = [sink EXCEPT !.queue = Tail(@)]
       /\ source' = source_request_block(source, hash)
       /\ hist' = [hist EXCEPT !.popped = Append(@, hash),
                               !.request = Append(@, hash)]
    /\ drv' = [drv EXCEPT !.pc = "get_next_block", !.iter.req = "Some",
                          !.iter.acts = @ + 1]
    /\ UNCHANGED <<cancel, indexVars>>

\* recv.next_requested_block() is Some(hash): send.request_block(&hash).
ForwardRequest ==
    /\ drv.pc = "next_requested_block"
    /\ sink.queue # <<>>
    /\ LET hash == Head(sink.queue) IN
       /\ sink' = [sink EXCEPT !.queue = Tail(@)]
       /\ source' = source_request_block(source, hash)
       /\ hist' = [hist EXCEPT !.popped = Append(@, hash),
                               !.request = Append(@, hash)]
    /\ drv' = [drv EXCEPT !.pc = "while", !.iter.req = "Some",
                          !.iter.acts = @ + 1]
    /\ UNCHANGED <<cancel, indexVars>>

\* recv.next_requested_block() is None: on to the else-if.
NoRequest ==
    /\ drv.pc = "next_requested_block"
    /\ sink.queue = <<>>
    /\ drv' = [drv EXCEPT !.pc = "get_next_block", !.iter.req = "None"]
    /\ UNCHANGED <<sink, source, hist, cancel, indexVars>>

\* feed_block called with the `hash` of the last block request instead of
\* the one get_next_block returned (the two bindings share the name).
FeedBlock_stale_hash ==
    /\ drv.pc = "get_next_block"
    /\ source.ready # <<>>
    /\ LET hash == Head(source.ready)
           stale == hist.request[Len(hist.request)]
       IN
       /\ source' = [source EXCEPT !.ready = Tail(@)]
       /\ sink' = sink_feed_block(sink, stale)
       /\ hist' = [hist EXCEPT !.got = Append(@, hash),
                               !.fed = Append(@, stale)]
    /\ drv' = [drv EXCEPT !.pc = "while", !.iter.get = "Some",
                          !.iter.acts = @ + 1]
    /\ UNCHANGED <<cancel, indexVars>>

\* send.get_next_block() is Some((hash, block)): recv.feed_block(&hash, &block).
FeedBlock ==
    /\ drv.pc = "get_next_block"
    /\ source.ready # <<>>
    /\ LET hash == Head(source.ready) IN
       /\ source' = [source EXCEPT !.ready = Tail(@)]
       /\ sink' = sink_feed_block(sink, hash)
       /\ hist' = [hist EXCEPT !.got = Append(@, hash),
                               !.fed = Append(@, hash)]
    /\ drv' = [drv EXCEPT !.pc = "while", !.iter.get = "Some",
                          !.iter.acts = @ + 1]
    /\ UNCHANGED <<cancel, indexVars>>

\* send.get_next_block() is None: on to the second else-if.
NoBlock ==
    /\ drv.pc = "get_next_block"
    /\ source.ready = <<>>
    /\ drv' = [drv EXCEPT !.pc = "next_from_index", !.iter.get = "None"]
    /\ UNCHANGED <<sink, source, hist, cancel, indexVars>>

\* The match without the call in its NewFile arm: the event is consumed and
\* the Sink never hears of the file.
DispatchEvent_skips_new_file ==
    /\ drv.pc = "next_from_index"
    /\ HasEvent(source)
    /\ LET event == NextEvent(source) IN
       /\ source' = source_pop_event(source)
       /\ sink' = IF event.kind = "NewBlock"
                  THEN sink_new_block(sink, event.hash) ELSE sink
       /\ hist' = IF event.kind = "NewBlock"
                  THEN [hist EXCEPT !.dispatched = Append(@, event)] ELSE hist
       /\ drv' = [drv EXCEPT !.pc = "while", !.iter.idx = "Some",
                             !.iter.acts = @ + 1,
                             !.instructions = @ /\ event.kind # "End"]
    /\ UNCHANGED <<cancel, indexVars>>

\* send.next_from_index() is Some(event): the match on the event.
DispatchEvent ==
    /\ drv.pc = "next_from_index"
    /\ HasEvent(source)
    /\ LET event == NextEvent(source) IN
       /\ source' = source_pop_event(source)
       /\ CASE event.kind = "NewFile" ->
                 /\ sink' = sink
                 /\ hist' = [hist EXCEPT !.dispatched = Append(@, event)]
                 /\ drv' = [drv EXCEPT !.pc = "while", !.iter.idx = "Some",
                                       !.iter.acts = @ + 1]
            [] event.kind = "NewBlock" ->
                 /\ sink' = sink_new_block(sink, event.hash)
                 /\ hist' = [hist EXCEPT !.dispatched = Append(@, event)]
                 /\ drv' = [drv EXCEPT !.pc = "while", !.iter.idx = "Some",
                                       !.iter.acts = @ + 1]
            [] event.kind = "End" ->
                 /\ sink' = sink
                 /\ hist' = hist
                 /\ drv' = [drv EXCEPT !.pc = "while", !.iter.idx = "Some",
                                       !.iter.acts = @ + 1,
                                       !.instructions = FALSE]
    /\ UNCHANGED <<cancel, indexVars>>

\* send.next_from_index() is None: nothing has arrived yet, or End is past.
NoEvent ==
    /\ drv.pc = "next_from_index"
    /\ ~HasEvent(source)
    /\ drv' = [drv EXCEPT !.pc = "while", !.iter.idx = "None"]
    /\ hist' = [hist EXCEPT !.waited = @ \/ source.pos < Len(source.script)]
    /\ UNCHANGED <<sink, source, cancel, indexVars>>

\* The transport delivers a block that was requested: get_next_block will
\* return it.  Blocks arrive in any order.
BlockArrives ==
    /\ \E hash \in source.pending :
          source' = [source EXCEPT !.pending = @ \ {hash},
                                   !.ready = Append(@, hash)]
    /\ UNCHANGED <<drv, sink, hist, cancel, indexVars>>

\* The next instruction of the index arrives at the Source.
IndexArrives ==
    /\ source.pos + source.avail < Len(source.script)
    /\ source' = [source EXCEPT !.avail = @ + 1]
    /\ UNCHANGED <<drv, sink, hist, cancel, indexVars>>

\* The methods of the peers that do_stream calls, each followed by `?`.
Calls ==
    {"is_missing_blocks", "next_requested_block", "request_block",
     "get_next_block", "feed_block", "next_from_index", "new_file",
     "new_block"}

\* What a failing call leaves of the peers: the calls made before it in the
\* iteration have taken their digest, block or event; the failing call itself
\* changes nothing.
FailingCall(call) ==
    CASE call = "is_missing_blocks" ->
           /\ drv.pc = "while" /\ ~drv.instructions
           /\ UNCHANGED <<sink, source, hist>>
      [] call = "next_requested_block" ->
           /\ drv.pc = "next_requested_block"
           /\ UNCHANGED <<sink, source, hist>>
      [] call = "request_block" ->
           /\ drv.pc = "next_requested_block" /\ sink.queue # <<>>
           /\ sink' = [sink EXCEPT !.queue = Tail(@)]
           /\ hist' = [hist EXCEPT !.popped = Append(@, Head(sink.queue))]
           /\ source' = source
      [] call = "get_next_block" ->
           /\ drv.pc = "get_next_block"
           /\ UNCHANGED <<sink, source, hist>>
      [] call = "feed_block" ->
           /\ drv.pc = "get_next_block" /\ source.ready # <<>>
           /\ source' = [source EXCEPT !.ready = Tail(@)]
           /\ hist' = [hist EXCEPT !.got = Append(@, Head(source.ready))]
           /\ sink' = sink
      [] call = "next_from_index" ->
           /\ drv.pc = "next_from_index"
           /\ UNCHANGED <<sink, source, hist>>
      [] call = "new_file" ->
           /\ drv.pc = "next_from_index" /\ HasEvent(source)
           /\ NextEvent(source).kind = "NewFile"
           /\ source' = source_pop_event(source)
           /\ UNCHANGED <<sink, hist>>
      [] call = "new_block" ->
           /\ drv.pc = "next_from_index" /\ HasEvent(source)
           /\ NextEvent(source).kind = "NewBlock"
           /\ source' = source_pop_event(source)
           /\ UNCHANGED <<sink, hist>>

\* The call returns Err and the error is dropped where the code has `?`: the
\* loop goes on.
CallFails_goes_on(call) ==
    /\ FailingCall(call)
    /\ drv' = [drv EXCEPT !.pc = "while", !.err = call]
    /\ UNCHANGED <<cancel, indexVars>>

\* A call on a peer returns Err: `?` returns it from do_stream.
CallFails(call) ==
    /\ FailingCall(call)
    /\ drv' = [drv EXCEPT !.pc = "failed", !.err = call]
    /\ UNCHANGED <<cancel, indexVars>>

\* The cancellation signal of the session is raised while do_stream runs.
Cancel ==
    /\ ~cancel
    /\ drv.pc \notin {"done", "failed"}
    /\ cancel' = TRUE
    /\ UNCHANGED <<drv, sink, source, hist, indexVars>>

DoStream ==
    \/ WhileTest
    \/ ForwardRequest
    \/ NoRequest
    \/ FeedBlock
    \/ NoBlock
    \/ DispatchEvent
    \/ NoEvent

InitStream ==
    /\ db = EmptyDb
    /\ tx = NoTx
    /\ ix = IdleIx
    /\ last = NoOp
    /\ ops = 0
    /\ drv = [IdleDrv EXCEPT !.pc = "while"]
    /\ \E have \in SUBSET Digests : sink = [IdleSink EXCEPT !.have = have]
    /\ \E script \in Scripts : source = [IdleSource EXCEPT !.script = script]
    /\ hist = IdleHist
    /\ partial = NoPartial
    /\ cancel = FALSE

NextStream ==
    \/ DoStream
    \/ BlockArrives
    \/ IndexArrives

SpecStream == InitStream /\ [][NextStream]_vars

\* The loop keeps running, and the transport delivers what was requested
\* and what the index still holds.
FairStream ==
    /\ SpecStream
    /\ WF_vars(DoStream)
    /\ WF_vars(BlockArrives)
    /\ WF_vars(IndexArrives)

\* The session with peers that may fail and a user who may cancel.
NextSession ==
    \/ NextStream
    \/ \E call \in Calls : CallFails(call)
    \/ Cancel

SpecSession == InitStream /\ [][NextSession]_vars

-----------------------------------------------------------------------------
\* The specification of the Index

\* Index::open on an existing database file: what an earlier run committed
\* after index_file("b") on a three-byte file of stream 0 (a block cut at
\* MAX_BLOCK_SIZE, then the rest up to the end of the file).
SeedDb ==
    [files |-> {[file_id |-> 1, name |-> "b", modified |-> 1]},
     blocks |-> {[hash |-> <<0, 0>>, file_id |-> 1, offset |-> 0],
                 [hash |-> <<1>>, file_id |-> 1, offset |-> 2]}]

\* Index::open_in_memory, or Index::open.
Init ==
    /\ db \in {EmptyDb, SeedDb}
    /\ tx = NoTx
    /\ ix = IdleIx
    /\ last = NoOp
    /\ drv = IdleDrv
    /\ sink = IdleSink
    /\ source = IdleSource
    /\ hist = IdleHist
    /\ ops = 0
    /\ partial = NoPartial
    /\ cancel = FALSE

Next ==
    \/ Transaction
    \/ Commit
    \/ Rollback
    \/ \E name \in Names, modified \in Times : AddFile(name, modified)
    \/ \E file_id \in FileIds : RemoveFile(file_id)
    \/ \E hash \in DirectHashes, file_id \in FileIds, offset \in DirectOffsets :
          AddBlock(hash, file_id, offset)
    \/ \E name \in Names, modified \in Times, stream \in Streams :
          IndexFileOpen(name, modified, stream)
    \/ \E n \in 1..MaxFileLen, split \in BOOLEAN :
          ChunkData(n, split, MaxFileLen)
    \/ ChunkEnd
    \/ ChunkNone
    \/ \E hash \in DirectHashes \cup {b.hash : b \in db.blocks} : GetBlock(hash)

Spec == Init /\ [][Next]_vars

\* The Index on a disk that fails: File::open and the reads of the chunk
\* iterator may return an I/O error.
NextIo ==
    \/ Next
    \/ \E name \in Names : IndexFileOpenErr(name)
    \/ ChunkErr

SpecIo == Init /\ [][NextIo]_vars

\* index_file at work on one file: the state right after Transaction and
\* IndexFileOpen("a", 1, k) on an empty index, and the steps of the loop over
\* a file of up to MaxChunkedLen bytes, whose content is one of ChunkStreams.
MaxChunkedLen == 4

ChunkStreams == {0, 1}

InitChunk ==
    /\ db = EmptyDb
    /\ tx = [open |-> TRUE,
             files |-> {[file_id |-> 1, name |-> "a", modified |-> 1]},
             blocks |-> {}]
    /\ \E k \in ChunkStreams :
          ix = [IdleIx EXCEPT !.pc = "reading", !.name = "a", !.modified = 1,
                              !.file_id = 1, !.stream = k]
    /\ last = [NoOp EXCEPT !.op = "transaction"]
    /\ drv = IdleDrv
    /\ sink = IdleSink
    /\ source = IdleSource
    /\ hist = IdleHist
    /\ ops = 1
    /\ partial = NoPartial
    /\ cancel = FALSE

NextChunk ==
    \/ \E n \in 1..MaxChunkedLen, split \in BOOLEAN :
          ChunkData(n, split, MaxChunkedLen)
    \/ ChunkEnd
    \/ ChunkNone
    \/ ChunkErr

SpecChunk == InitChunk /\ [][NextChunk]_vars

-----------------------------------------------------------------------------
\* Properties of the Index

RowsOf(d, file_id) == {b \in d.blocks : b.file_id = file_id}

\* The rows index_file inserted, from the blocks it reported.
EmittedRows(file_id, emitted) ==
    {[hash |-> emitted[i].hash, file_id |-> file_id,
      offset |-> emitted[i].offset] : i \in 1..Len(emitted)}

\* blocks, in the order they were recorded, cover [0, len) without gap or
\* overlap: none for an empty file.
Tiles(blocks, len) ==
    /\ (len = 0) => (blocks = <<>>)
    /\ (len > 0) => (blocks # <<>>)
    /\ blocks # <<>> =>
         /\ blocks[1].offset = 0
         /\ blocks[Len(blocks)].offset + blocks[Len(blocks)].size = len
    /\ \A i \in 1..(Len(blocks) - 1) :
         /\ blocks[i + 1].offset = blocks[i].offset + blocks[i].size
         /\ blocks[i + 1].offset > blocks[i].offset

\* index_file has just returned after chunking the file.
Chunked == last.op = "index_file" /\ ~last.up_to_date /\ ix.pc = "idle"

\* C1: the block rows recorded for a file that index_file chunked are the
\* blocks it cut, and they tile the file: first block at offset 0, offsets
\* strictly increasing, each block starting where the previous one ended,
\* lengths summing to the file length; no rows for an empty file.  (Stated
\* for the calls that found no block row under the file's id when the
\* chunking began and that read the file without an I/O error, so that what
\* is judged is the chunking alone.)
C1_Tiling ==
    (Chunked /\ last.clean /\ ~last.io) =>
        /\ RowsOf(TxDb, last.file_id) = EmittedRows(last.file_id, last.emitted)
        /\ Tiles(last.emitted, Len(last.data))
        /\ \E f \in tx.files : f.file_id = last.file_id /\ f.name = last.name

SizeOk(b) == 0 < b.size /\ b.size <= MAX_BLOCK_SIZE

\* C2: every block index_file records is longer than 0 and no longer than
\* MAX_BLOCK_SIZE, also the last block of a file whose length is a multiple of
\* MAX_BLOCK_SIZE.
C2_BoundedSize ==
    /\ \A i \in 1..Len(ix.emitted) : SizeOk(ix.emitted[i])
    /\ \A i \in 1..Len(last.emitted) : SizeOk(last.emitted[i])

\* C3: when a content-defined cut point falls where the running block reaches
\* MAX_BLOCK_SIZE, index_file cuts once: no zero-length block, no second
\* insert at the same (file_id, offset), and the call returns Ok.
C3_SingleCut ==
    /\ ix.coincide =>
          \A i \in 1..Len(ix.emitted) : ix.emitted[i].size > 0
    /\ (last.op = "index_file" /\ last.coincide) =>
          /\ last.ok
          /\ \A i \in 1..Len(last.emitted) : last.emitted[i].size > 0

\* A client call (add_file, or index_file up to its add_file) for `name` and
\* `modified` happens in this step.
CallsAddFile(name, modified) ==
    /\ ops' = ops + 1
    /\ \/ /\ ix'.pc = "reading"
          /\ ix'.name = name /\ ix'.modified = modified
       \/ /\ ix'.pc = "idle"
          /\ last'.op \in {"add_file", "index_file"}
          /\ last'.name = name /\ last'.modified = modified

\* What the call of this step returned from add_file.
Returned(file_id, up_to_date) ==
    \/ /\ ix'.pc = "reading"
       /\ ix'.file_id = file_id /\ ~up_to_date
    \/ /\ ix'.pc = "idle"
       /\ last'.ok
       /\ last'.file_id = file_id /\ last'.up_to_date = up_to_date

\* C8: add_file or index_file for a name whose row has the same modified
\* returns (existing_id, true) and changes nothing in the Index: not a file
\* row, not a block row; index_file returns without reading the file.
C8_UpToDateIdempotent ==
    [][\A f \in tx.files :
          CallsAddFile(f.name, f.modified) =>
              /\ Returned(f.file_id, TRUE)
              /\ tx' = tx /\ db' = db /\ ix' = ix
              /\ last'.emitted = <<>>]_vars

\* The witness of C8: index_file has just skipped a file that has block rows.
C8_Witness ==
    /\ last.op = "index_file" /\ last.up_to_date
    /\ RowsOf(TxDb, last.file_id) # {}
    /\ ops = MaxOps

\* C9: add_file or index_file for a name whose row has another modified
\* deletes every block row of that file_id before any block is inserted,
\* stores the new modified, returns the same file_id with up_to_date = false,
\* and leaves the rows of the other files alone; when index_file returns, the
\* file's rows are the blocks this call cut, none of the old ones.
C9_ReindexOnChange ==
    [][/\ \A f \in tx.files : \A modified \in Times \ {f.modified} :
            CallsAddFile(f.name, modified) =>
                /\ Returned(f.file_id, FALSE)
                /\ tx'.files = (tx.files \ {f}) \cup
                                  {[f EXCEPT !.modified = modified]}
                /\ tx'.blocks = tx.blocks \ RowsOf(TxDb, f.file_id)
                /\ ix'.emitted = <<>>
                /\ db' = db
       /\ (ix.pc = "reading") =>
            /\ tx'.files = tx.files
            /\ \A b \in tx.blocks : b.file_id # ix.file_id => b \in tx'.blocks
            /\ \A b \in tx'.blocks : b.file_id # ix.file_id => b \in tx.blocks
            /\ (ix'.pc = "idle" /\ ix.existed) =>
                  /\ last'.op = "index_file" /\ last'.file_id = ix.file_id
                  /\ RowsOf([files |-> tx'.files, blocks |-> tx'.blocks],
                            ix.file_id)
                       = EmittedRows(ix.file_id, last'.emitted)]_vars

\* The witness of C9: index_file has re-indexed a changed file that had block
\* rows, next to another file whose block rows are still there.
C9_Witness ==
    /\ last.op = "index_file" /\ last.existed /\ ~last.up_to_date
    /\ last.emitted # <<>>
    /\ ix.pc = "idle"
    /\ \E b \in db.blocks : b.file_id = last.file_id /\ b \notin tx.blocks
    /\ \E f \in tx.files, b \in tx.blocks :
          f.file_id # last.file_id /\ b.file_id = f.file_id

\* C10: get_block(h) answers Some exactly when a block row with hash h is
\* recorded, and then with the file name and offset of such a row.
C10_DedupLookup ==
    last.op = "get_block" =>
        /\ last.found <=> (\E b \in db.blocks : b.hash = last.hash)
        /\ last.found =>
              \E b \in db.blocks, f \in db.files :
                  /\ b.hash = last.hash /\ b.file_id = f.file_id
                  /\ f.name = last.name /\ b.offset = last.offset

\* Where every block row has a file row, get_block(h) is Some exactly when a
\* block row with hash h is recorded.
C10_WhenReferenced ==
    (last.op = "get_block" /\
     \A b \in db.blocks : \E f \in db.files : f.file_id = b.file_id)
        => C10_DedupLookup

Referenced(d) == \A b \in d.blocks : \E f \in d.files : f.file_id = b.file_id

\* C11: every block row's file_id is the file_id of an existing file row, in
\* the committed database and in the view of the open transaction, after any
\* sequence of add_file, add_block, remove_file and index_file.
C11_ReferentialIntegrity ==
    /\ Referenced(db)
    /\ tx.open => Referenced(TxDb)

NameUnique(d) == \A f, g \in d.files : f.name = g.name => f = g

\* C12: no two file rows have the same name; add_file (alone or inside
\* index_file) for a name that has a row inserts no row and returns the
\* file_id of that row.
C12_NameUnique ==
    /\ [](NameUnique(db) /\ NameUnique(TxDb))
    /\ [][\A f \in tx.files : \A modified \in Times :
            CallsAddFile(f.name, modified) =>
                /\ Returned(f.file_id, TRUE) \/ Returned(f.file_id, FALSE)
                /\ {g.file_id : g \in tx'.files} = {g.file_id : g \in tx.files}
                /\ Cardinality(tx'.files) = Cardinality(tx.files)]_vars

\* The witness of C12: add_file has found the row of its name and reset it,
\* in an index of two files.
C12_Witness ==
    /\ last.op = "add_file" /\ last.existed /\ ~last.up_to_date
    /\ Cardinality(tx.files) = 2
    /\ \E f \in tx.files : f.name = last.name /\ f.file_id = last.file_id

\* C13: the committed database changes in one kind of step only, commit(),
\* which publishes all that the transaction wrote at once; a transaction that
\* ends without commit() leaves it as it was when the transaction began; and
\* get_block answers from the committed database.
C13_Atomicity ==
    [][/\ db' # db =>
            /\ tx.open /\ ~tx'.open
            /\ last'.op = "commit"
            /\ db' = TxDb
       /\ (tx.open /\ ~tx'.open /\ last'.op = "rollback") => db' = db
       /\ (~tx.open /\ last'.op = "get_block") =>
            (last'.found <=> get_block(db, last'.hash) # {})]_vars

\* The witness of C13: a transaction that had written to the index was
\* dropped, and the committed database still holds rows.
C13_Witness ==
    /\ last.op = "rollback" /\ last.dirty
    /\ db = SeedDb
    /\ ops = MaxOps

\* C14: a transaction whose last operation returned an error does not change
\* the committed Index: nothing it wrote is published.
C14_ErrorsAbort ==
    [][(tx.open /\ ~last.ok) => db' = db]_vars

\* C20: index_file never skips a file whose last chunking pass returned an
\* error part-way: such a file is chunked again.
C20_UpToDateSound ==
    (last.op = "index_file" /\ last.up_to_date) =>
        last.file_id \notin partial.tx

\* The position at which block b ends.
BlockEnd(b) == b.offset + b.size

\* The cuts of `emitted` are at content cut points or at the end of the
\* stream, or MAX_BLOCK_SIZE after the block's offset; `running` bytes are
\* in the block not yet cut.
CutsOk(emitted, cuts, running) ==
    /\ running < MAX_BLOCK_SIZE
    /\ \A i \in 1..Len(emitted) :
          /\ emitted[i].size <= MAX_BLOCK_SIZE
          /\ emitted[i].size < MAX_BLOCK_SIZE => BlockEnd(emitted[i]) \in cuts
          /\ i < Len(emitted) => emitted[i + 1].offset = BlockEnd(emitted[i])

\* C18: a block is cut MAX_BLOCK_SIZE bytes after its offset as soon as that
\* many bytes have accumulated, a shorter block ends at a content cut point
\* or at the end of the stream, and every cut point the loop has handled ends
\* a block; whatever the pieces the chunk iterator hands over.
C18_CutPositions ==
    /\ CutsOk(ix.emitted, ix.cuts, ix.offset - ix.start_offset)
    /\ ix.emitted # <<>> =>
          ix.start_offset = BlockEnd(ix.emitted[Len(ix.emitted)])
    /\ \A c \in ix.cuts :
          \/ \E i \in 1..Len(ix.emitted) : BlockEnd(ix.emitted[i]) = c
          \/ ix.status = "AtSplit" /\ c = Len(ix.data)
    /\ last.op = "index_file" =>
          /\ CutsOk(last.emitted, last.cuts, 0)
          /\ last.ok =>
                \A c \in last.cuts :
                    \E i \in 1..Len(last.emitted) :
                        BlockEnd(last.emitted[i]) = c

\* The witness of C18: index_file returned Ok for a file of MaxChunkedLen
\* bytes with two blocks cut at MAX_BLOCK_SIZE in a row and no content cut
\* point before the end.
C18_Witness ==
    /\ last.op = "index_file" /\ last.ok
    /\ Len(last.data) = MaxChunkedLen
    /\ last.cuts = {Len(last.data)}
    /\ Len(last.emitted) >= 2
    /\ last.emitted[1].size = MAX_BLOCK_SIZE
    /\ last.emitted[2].size = MAX_BLOCK_SIZE

\* The bytes of `data` from offset on, size of them.
BytesAt(data, offset, size) == SubSeq(data, offset + 1, offset + size)

\* Every block's hash is the digest of its own bytes, and the blocks follow
\* one another from offset 0 without a gap or an overlap.
DigestsOk(emitted, data) ==
    /\ emitted # <<>> => emitted[1].offset = 0
    /\ \A i \in 1..Len(emitted) :
          /\ emitted[i].hash =
                BytesAt(data, emitted[i].offset, emitted[i].size)
          /\ i < Len(emitted) => emitted[i + 1].offset = BlockEnd(emitted[i])

\* C19: the hash recorded for a block is the digest of the bytes from its
\* offset to the next block's offset (to the end of the file for the last
\* block of a pass that returned Ok); the running hasher holds the bytes read
\* since the last cut and no others; the rows of the file are these blocks
\* (where no row was under the file's id when the pass began).
C19_DigestCorrect ==
    /\ DigestsOk(ix.emitted, ix.data)
    /\ ix.sha1 = BytesAt(ix.data, ix.start_offset,
                         ix.offset - ix.start_offset)
    /\ ix.offset = Len(ix.data)
    /\ (ix.pc = "reading" /\ ix.clean) =>
          RowsOf(TxDb, ix.file_id) = EmittedRows(ix.file_id, ix.emitted)
    /\ last.op = "index_file" =>
          /\ DigestsOk(last.emitted, last.data)
          /\ (Chunked /\ last.clean) =>
                RowsOf(TxDb, last.file_id)
                    = EmittedRows(last.file_id, last.emitted)
          /\ (last.ok /\ last.emitted # <<>>) =>
                BlockEnd(last.emitted[Len(last.emitted)]) = Len(last.data)

\* The witness of C19: index_file returned Ok with a block cut at a content
\* cut point, a block of two different bytes cut at MAX_BLOCK_SIZE, and a
\* last block.
C19_Witness ==
    /\ last.op = "index_file" /\ last.ok
    /\ Len(last.emitted) = 3
    /\ 0 < last.emitted[1].size /\ last.emitted[1].size < MAX_BLOCK_SIZE
    /\ last.emitted[2].size = MAX_BLOCK_SIZE
    /\ last.emitted[2].hash[1] # last.emitted[2].hash[2]
    /\ last.emitted[3].size > 0

-----------------------------------------------------------------------------
\* Properties of the transfer session

Done == drv.pc = "done"

\* The NewFile and NewBlock events of a script, in order.
Instructions(script) == SelectSeq(script, LAMBDA e : e.kind # "End")

NoDup(q) == \A i, j \in 1..Len(q) : i # j => q[i] # q[j]
Range(q) == {q[i] : i \in 1..Len(q)}

\* C4: with a finite script ended by End and every requested block delivered
\* in the end, do_stream returns Ok, and the Sink has then been given each
\* NewFile and each NewBlock of the script once, in the script's order.
C4_Convergence ==
    <>(Done /\ hist.dispatched = Instructions(source.script))

\* The witness of C4: a session that ended after waiting for the index,
\* passing on several instructions and feeding a block.
C4_Witness ==
    /\ Done
    /\ hist.waited
    /\ Len(hist.dispatched) >= 2
    /\ hist.fed # <<>>

\* C5: do_stream returns Ok only after End came out of next_from_index and
\* with a Sink that misses no block.
C5_Termination ==
    Done =>
        /\ source.pos = Len(source.script)
        /\ ~drv.instructions
        /\ ~is_missing_blocks(sink)

\* The witness of C5: Ok after an iteration found no instruction ready
\* before End, and after the Sink was missing a block.
C5_Witness ==
    /\ Done
    /\ hist.waited
    /\ hist.fed # <<>>
    /\ Len(source.script) = MaxEvents + 1

\* C6: an iteration does at most one of the three things; get_next_block is
\* called only after next_requested_block returned None, next_from_index only
\* after both returned None.
C6_Priority ==
    LET it == drv.iter IN
    /\ it.acts <= 1
    /\ it.get # "-" => it.req = "None"
    /\ it.idx # "-" => (it.req = "None" /\ it.get = "None")
    /\ it.acts = Cardinality({c \in {"req", "get", "idx"} : it[c] = "Some"})
    /\ drv.pc = "get_next_block" => it.req = "None"
    /\ drv.pc = "next_from_index" => (it.req = "None" /\ it.get = "None")

\* The witness of C6: an index event dispatched in an iteration that found
\* no request and no block, in a session that has fed a block before.
C6_Witness ==
    /\ drv.pc = "while"
    /\ drv.iter.idx = "Some" /\ drv.iter.acts = 1
    /\ hist.fed # <<>>
    /\ source.pending # {}

\* C7: the digests the Sink asked for are passed to request_block once each,
\* in order; the blocks get_next_block returned are passed to feed_block once
\* each with their own hash; at Ok, every digest requested was fed once.
C7_ExactlyOnce ==
    /\ hist.request = hist.popped
    /\ hist.fed = hist.got
    /\ Range(hist.fed) \subseteq Range(hist.request)
    /\ NoDup(hist.fed)
    /\ Done => (Range(hist.fed) = Range(hist.popped) /\
                Len(hist.fed) = Len(hist.popped))

\* The witness of C7: Ok after two digests were requested and both fed, in
\* the other order.
C7_Witness ==
    /\ Done
    /\ Len(hist.fed) = 2
    /\ hist.fed # hist.request

\* C15: a call of do_stream on a peer that returns Err ends do_stream with
\* that error at once; after it do_stream calls no method of the Sink or of
\* the Source, and it never returns Ok.
C15_ErrorsTerminate ==
    [][/\ drv'.err # drv.err => (drv.pc # "failed" /\ drv'.pc = "failed")
       /\ drv'.pc = "done" => drv'.err = "-"
       /\ drv.pc = "failed" =>
            /\ drv' = drv /\ sink' = sink /\ hist' = hist
            /\ source'.pos = source.pos
            /\ source'.pending \subseteq source.pending
            /\ Len(source'.ready) >= Len(source.ready)]_vars

\* The witness of C15: feed_block failed while instructions remained and the
\* Sink was missing blocks, and the transport has delivered a block since.
C15_Witness ==
    /\ drv.pc = "failed" /\ drv.err = "feed_block"
    /\ drv.instructions
    /\ is_missing_blocks(sink)
    /\ source.ready # <<>>

\* C16: with the cancellation signal raised, the next evaluation of the loop
\* condition ends do_stream with Canceled, before any call on a peer.
C16_Cancellation ==
    [][(cancel /\ drv.pc = "while" /\ drv' # drv) =>
            drv'.pc = "canceled"]_vars

\* C17: after End came out of next_from_index (instructions is false),
\* no iteration calls next_from_index.
C17_NoIndexAfterEnd ==
    [][~drv.instructions =>
            (drv'.iter.idx = drv.iter.idx \/ drv'.iter.idx = "-")]_vars

====
